---- MODULE Spec2Model ----
(***************************************************************************)
(* State-machine model of redbot_orm/postgres.py: the registration of a    *)
(* cog with a Postgres database (register_cog), the provisioning of its    *)
(* database (ensure_database_exists), the migration operations that shell  *)
(* out to piccolo (run_migrations, reverse_migration, create_migrations,   *)
(* diagnose_issues) and the engine acquisition (acquire_db_engine).        *)
(*                                                                         *)
(* Every coroutine is cut at its await points and at the calls between     *)
(* the operations; pc orders the pieces as the code does.  The outcomes of *)
(* the awaited collaborators (asyncpg, the piccolo subprocess, the         *)
(* PostgresEngine constructor, the pool) are chosen nondeterministically.  *)
(* `events` records, per call, the externally visible steps in the order   *)
(* in which the code performs them.                                        *)
(***************************************************************************)
EXTENDS Integers, Sequences, FiniteSets, TLC

----------------------------------------------------------------------------
(* Bounds of the model *)

\* longest migration-tool output, in phrases
MaxOutLen == 2

----------------------------------------------------------------------------
(* Values *)

\* the tasks that may run a call
Procs == {"t1", "t2"}

\* Strings the code takes apart are sequences of characters.
Lower(s) ==
    [i \in 1..Len(s) |->
        CASE s[i] = "E" -> "e"
          [] s[i] = "B" -> "b"
          [] OTHER -> s[i]]

\* stems of cog root directories and qualified names of cogs
Stems == {<<"E", "c">>, <<"e", "c">>}
QualifiedNames == {<<"B">>}

\* A plugin identity: a Path ("path"), a commands.Cog instance ("cog"), or an
\* object that is neither a Path nor has a qualified_name ("other", e.g. a
\* str).  stem is the stem of its root directory; unc and is_dir are the
\* attributes of that root the code inspects.
Cogs ==
    [kind : {"path"}, stem : Stems, qualified_name : {<<>>},
     unc : BOOLEAN, is_dir : BOOLEAN]
    \cup
    [kind : {"cog"}, stem : {<<"E", "c">>}, qualified_name : QualifiedNames,
     unc : BOOLEAN, is_dir : BOOLEAN]
    \cup
    [kind : {"other"}, stem : {<<"E", "c">>}, qualified_name : {<<>>},
     unc : BOOLEAN, is_dir : BOOLEAN]

\* connection-configuration mappings a caller may pass
Configs ==
    { [k \in {"host"} |-> <<"x">>],
      [k \in {"host", "database"} |-> IF k = "host" THEN <<"x">> ELSE <<"p", "g">>] }

\* table descriptors of the process (Table classes)
Tables == {"T1", "T2"}

\* phrases of a piccolo output the code looks for, and any other text
NoMigrationsPhrase == "No migrations need to be run"
TracebackWord == "Traceback"
Phrases == {NoMigrationsPhrase, TracebackWord, "Ran 1 migration"}

RECURSIVE TextsOfLen(_)
TextsOfLen(n) ==
    IF n = 0 THEN {<<>>}
    ELSE {Append(t, w) : t \in TextsOfLen(n - 1), w \in Phrases}

\* the outputs the migration tool may give
MigrationOutputs == UNION {TextsOfLen(n) : n \in 0..MaxOutLen}
DiagnoseOutputs == {<<"diagnose ok">>, <<"diagnose bad">>}
CheckOutputs == {<<"check ok">>}

\* `phrase in text`
Contains(text, phrase) == \E i \in 1..Len(text) : text[i] = phrase

----------------------------------------------------------------------------
(* Pure functions of the source *)

\* common.get_root: the root directory of the identity
get_root(cog) == [stem |-> cog.stem, unc |-> cog.unc, is_dir |-> cog.is_dir]

\* common.is_unc_path
is_unc_path(root) == root.unc

\* db_name raises AttributeError when the identity is neither a Path nor has
\* a qualified_name
db_name_raises(cog) == cog.kind = "other"

\* db_name with the bug of taking the stem of the root for a cog as well
db_name_from_stem(cog) == Lower(cog.stem)

db_name(cog) ==
    IF cog.kind = "path" THEN Lower(cog.stem) ELSE Lower(cog.qualified_name)

\* d[k] = v on a dict
DictSet(d, k, v) == [x \in DOMAIN d \cup {k} |-> IF x = k THEN v ELSE d[x]]

\* dict_copy with the bug of handing back the same object (temp_config = config)
dict_alias(h, ref) == [heap |-> h, ref |-> ref]

\* The dict objects of a call live in a heap (a sequence; a reference is an
\* index).  dict.copy() allocates a new object with the same items.
dict_copy(h, ref) == [heap |-> Append(h, h[ref]), ref |-> Len(h) + 1]

\* temp_config = config.copy(); temp_config["database"] = db_name(cog_instance)
temp_config_of(h, ref, cog) ==
    LET c == dict_copy(h, ref)
    IN  [heap |-> [c.heap EXCEPT ![c.ref] = DictSet(@, "database", db_name(cog))],
         ref |-> c.ref]

\* the reference of the caller's config dict in the heap of its call
ConfigRef == 1

\* validate_root without the UNC check
validate_root_without_unc(root) ==
    IF ~root.is_dir THEN "DirectoryError" ELSE "ok"

\* validate_root without the directory check
validate_root_without_dir(root) ==
    IF is_unc_path(root) THEN "UNCPathError" ELSE "ok"

\* the root checks of register_cog: the error it raises, or "ok"
validate_root(root) ==
    IF is_unc_path(root) THEN "UNCPathError"
    ELSE IF ~root.is_dir THEN "DirectoryError"
    ELSE "ok"

----------------------------------------------------------------------------
(* Calls *)

Operations ==
    {"register_cog", "run_migrations", "reverse_migration", "create_migrations",
     "diagnose_issues", "ensure_database_exists"}

\* description: str = None
Descriptions ==
    {[given |-> FALSE, text |-> <<>>], [given |-> TRUE, text |-> <<>>],
     [given |-> TRUE, text |-> <<"d">>]}

\* <<min_size, max_size>>; the defaults are 1 and 20
PoolSizes == {<<1, 20>>, <<2, 5>>}

NoDescription == [given |-> FALSE, text |-> <<>>]

\* the arguments of the calls a caller may make
CallArgs ==
    [op : {"register_cog"}, cog : Cogs, config : Configs, trace : BOOLEAN,
     skip_migrations : BOOLEAN, tables : {{"T1"}, {"T1", "T2"}}, sizes : PoolSizes,
     extensions : {<<"uuid-ossp">>}, timestamp : {<<>>}, description : {NoDescription}]
    \cup
    [op : {"run_migrations"}, cog : Cogs, config : Configs, trace : BOOLEAN,
     skip_migrations : {FALSE}, tables : {{}}, sizes : {<<1, 20>>},
     extensions : {<<>>}, timestamp : {<<>>}, description : {NoDescription}]
    \cup
    [op : {"reverse_migration"}, cog : Cogs, config : Configs, trace : BOOLEAN,
     skip_migrations : {FALSE}, tables : {{}}, sizes : {<<1, 20>>},
     extensions : {<<>>}, timestamp : {<<"2", "0">>}, description : {NoDescription}]
    \cup
    [op : {"create_migrations"}, cog : Cogs, config : Configs, trace : BOOLEAN,
     skip_migrations : {FALSE}, tables : {{}}, sizes : {<<1, 20>>},
     extensions : {<<>>}, timestamp : {<<>>}, description : Descriptions]
    \cup
    [op : {"diagnose_issues", "ensure_database_exists"}, cog : Cogs, config : Configs,
     trace : {FALSE}, skip_migrations : {FALSE}, tables : {{}}, sizes : {<<1, 20>>},
     extensions : {<<>>}, timestamp : {<<>>}, description : {NoDescription}]

\* the arguments of a task that is in no call
NoArgs ==
    [op |-> "none", cog |-> [kind |-> "path", stem |-> <<>>, qualified_name |-> <<>>,
                             unc |-> FALSE, is_dir |-> FALSE],
     config |-> <<>>, trace |-> FALSE, skip_migrations |-> FALSE, tables |-> {},
     sizes |-> <<1, 20>>, extensions |-> <<>>, timestamp |-> <<>>,
     description |-> NoDescription]

\* where each operation starts
Entry(op) ==
    CASE op = "register_cog" -> "rc_validate"
      [] op = "run_migrations" -> "rm_run"
      [] op = "reverse_migration" -> "rv_run"
      [] op = "create_migrations" -> "cm_run"
      [] op = "diagnose_issues" -> "di_diagnose"
      [] op = "ensure_database_exists" -> "ede_connect"

\* the local variables of a call before it has assigned them
NoLocals ==
    [database_name |-> <<>>, databases |-> {}, created |-> FALSE, pending |-> "none",
     result |-> <<>>, diagnoses |-> <<>>, temp_config |-> 0, engine |-> 0]

NotCalled == [status |-> "none", exc |-> "", value |-> <<>>]
Running == [status |-> "running", exc |-> "", value |-> <<>>]

\* the database that every server has
Postgres == <<"p", "g">>

----------------------------------------------------------------------------
(* State *)

VARIABLES
    pc,                 \* per task: the await point its call is at
    args,               \* per task: the arguments of its call
    heap,               \* per task: the dict objects of its call (config first)
    conn,               \* per task: the administrative connection
    locals,             \* per task: the local variables of its call
    outcome,            \* per task: how its call ended
    events,             \* per task: the externally visible steps of its call
    dbBefore,           \* per task: tableDb when its call began
    databases,          \* the databases of the server (pg_database)
    tableDb,            \* per table descriptor: _meta.db, an engine handle
                        \* (0: not bound, 1: the engine of an earlier registration)
    nextEngine,         \* the handle of the next engine constructed
    piccoloInstalled    \* whether the piccolo executable can be located

vars ==
    <<pc, args, heap, conn, locals, outcome, events, dbBefore, databases, tableDb,
      nextEngine, piccoloInstalled>>

callVars == <<args, heap, dbBefore>>
envVars == <<databases, tableDb, nextEngine, piccoloInstalled>>

Set(f, p, v) == [f EXCEPT ![p] = v]

Init ==
    /\ pc = [p \in Procs |-> "idle"]
    /\ args = [p \in Procs |-> NoArgs]
    /\ heap = [p \in Procs |-> <<>>]
    /\ conn = [p \in Procs |-> "none"]
    /\ locals = [p \in Procs |-> NoLocals]
    /\ outcome = [p \in Procs |-> NotCalled]
    /\ events = [p \in Procs |-> <<>>]
    /\ dbBefore = [p \in Procs |-> [t \in Tables |-> 0]]
    /\ databases \in {{Postgres}, {Postgres, <<"e", "c">>}}
    /\ tableDb \in {[t \in Tables |-> 0], [t \in Tables |-> 1]}
    /\ nextEngine = 2
    /\ piccoloInstalled \in BOOLEAN

\* the call of p ends with exception exc
Raise(p, exc) ==
    /\ outcome' = Set(outcome, p, [status |-> "raised", exc |-> exc, value |-> <<>>])
    /\ pc' = Set(pc, p, "done")

\* the call of p returns v
Return(p, v) ==
    /\ outcome' = Set(outcome, p, [status |-> "returned", exc |-> "", value |-> v])
    /\ pc' = Set(pc, p, "done")

Emit(p, es) == events' = Set(events, p, events[p] \o es)

\* A caller calls one of the operations.
Call(p) ==
    /\ pc[p] = "idle"
    /\ \E a \in CallArgs :
        /\ args' = Set(args, p, a)
        /\ heap' = Set(heap, p, <<a.config>>)
        /\ pc' = Set(pc, p, Entry(a.op))
    /\ conn' = Set(conn, p, "none")
    /\ locals' = Set(locals, p, NoLocals)
    /\ outcome' = Set(outcome, p, Running)
    /\ events' = Set(events, p, <<>>)
    /\ dbBefore' = Set(dbBefore, p, tableDb)
    /\ UNCHANGED envVars

----------------------------------------------------------------------------
(* register_cog, lines 46-52: the root checks *)

\* rc_validate with the bug of going on to the migrations without provisioning
rc_validate_skips_provisioning(p) ==
    /\ pc[p] = "rc_validate"
    /\ LET cog_path == get_root(args[p].cog)
           v == validate_root(cog_path)
       IN  /\ Emit(p, <<<<"get_root", cog_path>>>>)
           /\ IF v = "ok"
              THEN /\ pc' = Set(pc, p, "rc_provisioned")
                   /\ UNCHANGED outcome
              ELSE Raise(p, v)
    /\ UNCHANGED <<conn, locals, callVars, envVars>>

rc_validate(p) ==
    /\ pc[p] = "rc_validate"
    /\ LET cog_path == get_root(args[p].cog)
           v == validate_root(cog_path)
       IN  /\ Emit(p, <<<<"get_root", cog_path>>>>)
           /\ IF v = "ok"
              THEN /\ pc' = Set(pc, p, "ede_connect")
                   /\ UNCHANGED outcome
              ELSE Raise(p, v)
    /\ UNCHANGED <<conn, locals, callVars, envVars>>

----------------------------------------------------------------------------
(* ensure_database_exists, lines 213-222 *)

ConnectTimeout == 10

\* what follows ensure_database_exists returning v
ede_return(p, v) ==
    IF args[p].op = "register_cog"
    THEN /\ pc' = Set(pc, p, "rc_provisioned")
         /\ UNCHANGED outcome
    ELSE Return(p, <<"bool", v>>)

\* line 213, await asyncpg.connect(**config, timeout=10), and line 214,
\* db_name(cog_instance), which is outside the try block
ede_connect(p) ==
    /\ pc[p] = "ede_connect"
    /\ \E connected \in BOOLEAN :
        IF ~connected
        THEN /\ Raise(p, "ConnectError")
             /\ Emit(p, <<<<"connect", [config |-> heap[p][ConfigRef],
                                        timeout |-> ConnectTimeout, ok |-> FALSE]>>>>)
             /\ UNCHANGED <<conn, locals>>
        ELSE /\ conn' = Set(conn, p, "open")
             /\ Emit(p, <<<<"connect", [config |-> heap[p][ConfigRef],
                                        timeout |-> ConnectTimeout, ok |-> TRUE]>>>>)
             /\ IF db_name_raises(args[p].cog)
                THEN /\ Raise(p, "AttributeError")
                     /\ UNCHANGED locals
                ELSE /\ locals' = Set(locals, p,
                            [locals[p] EXCEPT !.database_name = db_name(args[p].cog)])
                     /\ pc' = Set(pc, p, "ede_fetch")
                     /\ UNCHANGED outcome
    /\ UNCHANGED <<callVars, envVars>>

\* database_absent with the bug of not looking at the listing
database_always_absent(database_name, listed) == TRUE

\* line 217: must the database be created?
database_absent(database_name, listed) == database_name \notin listed

\* lines 216-217, await conn.fetch(...) and the membership test
ede_fetch(p) ==
    /\ pc[p] = "ede_fetch"
    /\ conn[p] = "open"
    /\ \E fetched \in BOOLEAN :
        /\ Emit(p, <<<<"fetch", [query |-> <<"SELECT datname FROM pg_database;">>,
                                  ok |-> fetched]>>>>)
        /\ IF ~fetched
           THEN /\ locals' = Set(locals, p, [locals[p] EXCEPT !.pending = "PostgresError"])
                /\ pc' = Set(pc, p, "ede_close")
           ELSE /\ locals' = Set(locals, p, [locals[p] EXCEPT !.databases = databases])
                /\ pc' = Set(pc, p,
                        IF database_absent(locals[p].database_name, databases)
                        THEN "ede_execute" ELSE "ede_close")
    /\ UNCHANGED <<conn, outcome, callVars, envVars>>

\* ede_execute with a second look at the server's databases before the
\* statement is issued (a check that the code does not make)
ede_execute_rechecks(p) ==
    /\ pc[p] = "ede_execute"
    /\ conn[p] = "open"
    /\ IF locals[p].database_name \in databases
       THEN UNCHANGED <<events, locals, databases>>
       ELSE /\ Emit(p, <<<<"execute", [query |-> <<"CREATE DATABASE">>,
                                       name |-> locals[p].database_name]>>>>)
            /\ \E executed \in BOOLEAN :
                IF executed
                THEN /\ databases' = databases \cup {locals[p].database_name}
                     /\ locals' = Set(locals, p, [locals[p] EXCEPT !.created = TRUE])
                ELSE /\ locals' = Set(locals, p,
                            [locals[p] EXCEPT !.pending = "PostgresError"])
                     /\ UNCHANGED databases
    /\ pc' = Set(pc, p, "ede_close")
    /\ UNCHANGED <<conn, outcome, callVars, tableDb, nextEngine, piccoloInstalled>>

\* lines 218-219, await conn.execute(f"CREATE DATABASE {database_name};")
ede_execute(p) ==
    /\ pc[p] = "ede_execute"
    /\ conn[p] = "open"
    /\ Emit(p, <<<<"execute", [query |-> <<"CREATE DATABASE">>,
                                name |-> locals[p].database_name]>>>>)
    /\ \E executed \in BOOLEAN :
        IF executed /\ locals[p].database_name \notin databases
        THEN /\ databases' = databases \cup {locals[p].database_name}
             /\ locals' = Set(locals, p, [locals[p] EXCEPT !.created = TRUE])
        ELSE /\ locals' = Set(locals, p,
                    [locals[p] EXCEPT !.pending =
                        IF locals[p].database_name \in databases
                        THEN "DuplicateDatabaseError" ELSE "PostgresError"])
             /\ UNCHANGED databases
    /\ pc' = Set(pc, p, "ede_close")
    /\ UNCHANGED <<conn, outcome, callVars, tableDb, nextEngine, piccoloInstalled>>

\* lines 220-222, the finally block and what leaves the function
ede_close(p) ==
    /\ pc[p] = "ede_close"
    /\ conn' = Set(conn, p, "closed")
    /\ Emit(p, <<<<"close", <<>>>>>>)
    /\ IF locals[p].pending # "none"
       THEN Raise(p, locals[p].pending)
       ELSE ede_return(p, locals[p].created)
    /\ UNCHANGED <<locals, callVars, envVars>>

----------------------------------------------------------------------------
(* The migration operations, lines 95-105, 125-136, 158-171 *)

\* str(find_piccolo_executable())
Piccolo == <<"piccolo">>

Word(w) == <<w>>

TraceFlag(trace) == IF trace THEN <<Word("--trace")>> ELSE <<>>

\* lines 97-104
forwards_commands(cog, trace) ==
    <<Piccolo, Word("migrations"), Word("forwards"), get_root(cog).stem>>
    \o TraceFlag(trace)

\* lines 127-135
backwards_commands(cog, timestamp, trace) ==
    <<Piccolo, Word("migrations"), Word("backwards"), get_root(cog).stem, timestamp>>
    \o TraceFlag(trace)

\* new_commands with the bug of appending the description before --trace
new_commands_desc_before_trace(cog, trace, description) ==
    <<Piccolo, Word("migrations"), Word("new"), get_root(cog).stem, Word("--auto")>>
    \o (IF description.given THEN <<Word("--desc=") \o description.text>> ELSE <<>>)
    \o TraceFlag(trace)

\* lines 160-170
new_commands(cog, trace, description) ==
    <<Piccolo, Word("migrations"), Word("new"), get_root(cog).stem, Word("--auto")>>
    \o TraceFlag(trace)
    \o (IF description.given THEN <<Word("--desc=") \o description.text>> ELSE <<>>)

\* The body shared by the three operations: the copy of the config with the
\* database overridden, the lookup of the executable, and the subprocess,
\* whose output is the value of the operation.
migration_op(p, at, commands, is_shell, outputs) ==
    /\ pc[p] = at
    /\ IF db_name_raises(args[p].cog)
       THEN /\ Raise(p, "AttributeError")
            /\ UNCHANGED <<heap, locals, events>>
       ELSE LET t == temp_config_of(heap[p], ConfigRef, args[p].cog)
            IN  /\ heap' = Set(heap, p, t.heap)
                /\ IF ~piccoloInstalled
                   THEN /\ Raise(p, "FileNotFoundError")
                        /\ locals' = Set(locals, p, [locals[p] EXCEPT !.temp_config = t.ref])
                        /\ UNCHANGED events
                   ELSE \E out \in outputs :
                        /\ Emit(p, <<<<"run_shell",
                                      [commands |-> commands, shell |-> is_shell,
                                       out |-> out]>>>>)
                        /\ locals' = Set(locals, p,
                               [locals[p] EXCEPT !.temp_config = t.ref, !.result = out])
                        /\ IF args[p].op = "register_cog"
                           THEN /\ pc' = Set(pc, p, "rc_classify")
                                /\ UNCHANGED outcome
                           ELSE Return(p, <<"text", out>>)
    /\ UNCHANGED <<conn, args, dbBefore, envVars>>

run_migrations(p) ==
    migration_op(p, "rm_run", forwards_commands(args[p].cog, args[p].trace), FALSE,
                 MigrationOutputs)

reverse_migration(p) ==
    migration_op(p, "rv_run",
                 backwards_commands(args[p].cog, args[p].timestamp, args[p].trace),
                 FALSE, MigrationOutputs)

create_migrations(p) ==
    migration_op(p, "cm_run",
                 new_commands(args[p].cog, args[p].trace, args[p].description),
                 TRUE, MigrationOutputs)

----------------------------------------------------------------------------
(* diagnose_issues, lines 184-197 *)

\* lines 184-191: the lookup, the copy of the config, the --diagnose run
di_diagnose(p) ==
    /\ pc[p] = "di_diagnose"
    /\ IF ~piccoloInstalled
       THEN /\ Raise(p, "FileNotFoundError")
            /\ UNCHANGED <<heap, locals, events>>
       ELSE IF db_name_raises(args[p].cog)
       THEN /\ Raise(p, "AttributeError")
            /\ UNCHANGED <<heap, locals, events>>
       ELSE LET t == temp_config_of(heap[p], ConfigRef, args[p].cog)
            IN  \E out \in DiagnoseOutputs :
                /\ heap' = Set(heap, p, t.heap)
                /\ Emit(p, <<<<"run_shell",
                              [commands |-> <<Piccolo, Word("--diagnose")>>,
                               shell |-> FALSE, out |-> out]>>>>)
                /\ locals' = Set(locals, p,
                       [locals[p] EXCEPT !.temp_config = t.ref, !.diagnoses = out])
                /\ pc' = Set(pc, p, "di_check")
                /\ UNCHANGED outcome
    /\ UNCHANGED <<conn, args, dbBefore, envVars>>

\* line 197: f"{diagnoses}\n{check}"
diagnosis_report(diagnoses, check) == diagnoses \o <<"\n">> \o check

\* lines 192-197: the `migrations check` run and the returned report
di_check(p) ==
    /\ pc[p] = "di_check"
    /\ \E out \in CheckOutputs :
        /\ Emit(p, <<<<"run_shell",
                      [commands |-> <<Piccolo, Word("migrations"), Word("check")>>,
                       shell |-> FALSE, out |-> out]>>>>)
        /\ IF args[p].op = "register_cog"
           THEN /\ locals' = Set(locals, p,
                       [locals[p] EXCEPT !.diagnoses = diagnosis_report(@, out)])
                /\ pc' = Set(pc, p, "rc_log_error")
                /\ UNCHANGED outcome
           ELSE /\ Return(p, <<"text", diagnosis_report(locals[p].diagnoses, out)>>)
                /\ UNCHANGED locals
    /\ UNCHANGED <<conn, callVars, envVars>>

----------------------------------------------------------------------------
(* register_cog, lines 54-77 *)

Log(level, text) == <<"log", [level |-> level, text |-> text]>>

\* rc_provisioned with the bug of not looking at skip_migrations
rc_provisioned_ignores_skip(p) ==
    /\ pc[p] = "rc_provisioned"
    /\ Emit(p,
            (IF locals[p].created
             THEN <<Log("info", <<"New database created for">> \o get_root(args[p].cog).stem)>>
             ELSE <<>>)
            \o <<Log("info", <<"Running migrations, if any">>)>>)
    /\ pc' = Set(pc, p, "rm_run")
    /\ UNCHANGED <<conn, locals, outcome, callVars, envVars>>

\* lines 54-58: the result of ensure_database_exists, and skip_migrations
rc_provisioned(p) ==
    /\ pc[p] = "rc_provisioned"
    /\ Emit(p,
            (IF locals[p].created
             THEN <<Log("info", <<"New database created for">> \o get_root(args[p].cog).stem)>>
             ELSE <<>>)
            \o
            (IF ~args[p].skip_migrations
             THEN <<Log("info", <<"Running migrations, if any">>)>>
             ELSE <<>>))
    /\ pc' = Set(pc, p, IF ~args[p].skip_migrations THEN "rm_run" ELSE "rc_temp_config")
    /\ UNCHANGED <<conn, locals, outcome, callVars, envVars>>

\* classify with the bug of never looking for "Traceback"
classify_without_failure(result) ==
    IF Contains(result, NoMigrationsPhrase) THEN "no-op" ELSE "output"

\* classify with the bug of looking for "Traceback" first
classify_traceback_first(result) ==
    IF Contains(result, TracebackWord) THEN "failure"
    ELSE IF Contains(result, NoMigrationsPhrase) THEN "no-op"
    ELSE "output"

\* lines 60-64: what the output of the migration tool is taken for
classify(result) ==
    IF Contains(result, NoMigrationsPhrase) THEN "no-op"
    ELSE IF Contains(result, TracebackWord) THEN "failure"
    ELSE "output"

\* rc_classify with the bug of raising when the migration failed
rc_classify_raises(p) ==
    /\ pc[p] = "rc_classify"
    /\ LET c == classify(locals[p].result)
       IN  /\ Emit(p,
                  IF c = "no-op"
                  THEN <<Log("info", <<"No migrations needed">>)>>
                  ELSE <<Log("info", <<"Migration result...\n">> \o locals[p].result)>>)
           /\ IF c = "failure"
              THEN Raise(p, "MigrationError")
              ELSE /\ pc' = Set(pc, p, "rc_temp_config")
                   /\ UNCHANGED outcome
    /\ UNCHANGED <<conn, locals, callVars, envVars>>

\* lines 60-65
rc_classify(p) ==
    /\ pc[p] = "rc_classify"
    /\ LET c == classify(locals[p].result)
       IN  /\ Emit(p,
                  IF c = "no-op"
                  THEN <<Log("info", <<"No migrations needed">>)>>
                  ELSE <<Log("info", <<"Migration result...\n">> \o locals[p].result)>>)
           /\ pc' = Set(pc, p, IF c = "failure" THEN "di_diagnose" ELSE "rc_temp_config")
    /\ UNCHANGED <<conn, locals, outcome, callVars, envVars>>

\* line 66
rc_log_error(p) ==
    /\ pc[p] = "rc_log_error"
    /\ Emit(p, <<Log("error",
                     locals[p].diagnoses \o <<"\nOne or more migrations failed to run!">>)>>)
    /\ pc' = Set(pc, p, "rc_temp_config")
    /\ UNCHANGED <<conn, locals, outcome, callVars, envVars>>

\* lines 68-70
rc_temp_config(p) ==
    /\ pc[p] = "rc_temp_config"
    /\ LET t == temp_config_of(heap[p], ConfigRef, args[p].cog)
       IN  /\ heap' = Set(heap, p, t.heap)
           /\ locals' = Set(locals, p, [locals[p] EXCEPT !.temp_config = t.ref])
    /\ Emit(p, <<Log("debug", <<"Fetching database engine">>)>>)
    /\ pc' = Set(pc, p, "ae_acquire")
    /\ UNCHANGED <<conn, outcome, args, dbBefore, envVars>>

EngineTimeout == 10

\* acquire_error with the bug of not converting asyncio.TimeoutError
acquire_error_unconverted(res) ==
    IF res = "timeout" THEN "TimeoutError" ELSE "EngineError"

\* acquire_db_engine, lines 244-247: the error that leaves it when the
\* construction times out ("timeout") or itself raises ("error")
acquire_error(res) ==
    IF res = "timeout" THEN "ConnectionTimeoutError" ELSE "EngineError"

\* line 71 and acquire_db_engine, lines 237-247
ae_acquire(p) ==
    /\ pc[p] = "ae_acquire"
    /\ \E res \in {"ok", "timeout", "error"} :
        /\ Emit(p, <<<<"PostgresEngine",
                      [config |-> heap[p][locals[p].temp_config],
                       extensions |-> args[p].extensions,
                       timeout |-> EngineTimeout, res |-> res]>>>>
                   \o (IF res = "ok"
                       THEN <<Log("debug", <<"Database engine acquired, starting pool">>)>>
                       ELSE <<>>))
        /\ IF res = "ok"
           THEN /\ locals' = Set(locals, p, [locals[p] EXCEPT !.engine = nextEngine])
                /\ nextEngine' = nextEngine + 1
                /\ pc' = Set(pc, p, "rc_start_pool")
                /\ UNCHANGED outcome
           ELSE /\ Raise(p, acquire_error(res))
                /\ UNCHANGED <<locals, nextEngine>>
    /\ UNCHANGED <<conn, callVars, databases, tableDb, piccoloInstalled>>

\* rc_start_pool with the bug of starting the pool with the default sizes
rc_start_pool_default_sizes(p) ==
    /\ pc[p] = "rc_start_pool"
    /\ \E started \in BOOLEAN :
        /\ Emit(p, <<<<"start_connection_pool",
                      [engine |-> locals[p].engine, min_size |-> 1,
                       max_size |-> 20, ok |-> started]>>>>
                   \o (IF started
                       THEN <<Log("info", <<"Database connection pool started">>)>>
                       ELSE <<>>))
        /\ IF started
           THEN /\ pc' = Set(pc, p, "rc_bind")
                /\ UNCHANGED outcome
           ELSE Raise(p, "PoolError")
    /\ UNCHANGED <<conn, locals, callVars, envVars>>

\* rc_start_pool with the bug of binding the tables before the pool is started
rc_start_pool_after_binding(p) ==
    /\ pc[p] = "rc_start_pool"
    /\ tableDb' = [t \in Tables |->
                      IF t \in args[p].tables THEN locals[p].engine ELSE tableDb[t]]
    /\ \E started \in BOOLEAN :
        /\ Emit(p, <<<<"start_connection_pool",
                      [engine |-> locals[p].engine, min_size |-> args[p].sizes[1],
                       max_size |-> args[p].sizes[2], ok |-> started]>>>>
                   \o (IF started
                       THEN <<Log("info", <<"Database connection pool started">>)>>
                       ELSE <<>>))
        /\ IF started
           THEN /\ pc' = Set(pc, p, "rc_bind")
                /\ UNCHANGED outcome
           ELSE Raise(p, "PoolError")
    /\ UNCHANGED <<conn, locals, callVars, databases, nextEngine, piccoloInstalled>>

\* lines 73-74
rc_start_pool(p) ==
    /\ pc[p] = "rc_start_pool"
    /\ \E started \in BOOLEAN :
        /\ Emit(p, <<<<"start_connection_pool",
                      [engine |-> locals[p].engine, min_size |-> args[p].sizes[1],
                       max_size |-> args[p].sizes[2], ok |-> started]>>>>
                   \o (IF started
                       THEN <<Log("info", <<"Database connection pool started">>)>>
                       ELSE <<>>))
        /\ IF started
           THEN /\ pc' = Set(pc, p, "rc_bind")
                /\ UNCHANGED outcome
           ELSE Raise(p, "PoolError")
    /\ UNCHANGED <<conn, locals, callVars, envVars>>

\* lines 75-77
rc_bind(p) ==
    /\ pc[p] = "rc_bind"
    /\ tableDb' = [t \in Tables |->
                      IF t \in args[p].tables THEN locals[p].engine ELSE tableDb[t]]
    /\ Emit(p, <<<<"bind", [tables |-> args[p].tables, engine |-> locals[p].engine]>>>>)
    /\ Return(p, <<"engine", locals[p].engine>>)
    /\ UNCHANGED <<conn, locals, callVars, databases, nextEngine, piccoloInstalled>>

----------------------------------------------------------------------------
(* Specification: one task makes one call, in any state of the server and of
   the table descriptors that earlier calls may have left *)

Step(p) ==
    \/ Call(p)
    \/ rc_validate(p)
    \/ ede_connect(p)
    \/ ede_fetch(p)
    \/ ede_execute(p)
    \/ ede_close(p)
    \/ rc_provisioned(p)
    \/ run_migrations(p)
    \/ reverse_migration(p)
    \/ create_migrations(p)
    \/ rc_classify(p)
    \/ di_diagnose(p)
    \/ di_check(p)
    \/ rc_log_error(p)
    \/ rc_temp_config(p)
    \/ ae_acquire(p)
    \/ rc_start_pool(p)
    \/ rc_bind(p)

Next == Step("t1")

Spec == Init /\ [][Next]_vars

----------------------------------------------------------------------------
(* Properties *)

InRegister(p) == args[p].op = "register_cog"

Kind(p, i) == events[p][i][1]
Payload(p, i) == events[p][i][2]
Indices(p) == 1..Len(events[p])

HasEvent(p, kind) == \E i \in Indices(p) : Kind(p, i) = kind

Raised(p, exc) ==
    pc[p] = "done" /\ outcome[p].status = "raised" /\ outcome[p].exc = exc

Returned(p) == pc[p] = "done" /\ outcome[p].status = "returned"

\* register_cog has left its migration block (line 68 or beyond)
PastMigrations(p) ==
    /\ InRegister(p)
    /\ \/ pc[p] \in {"rc_temp_config", "ae_acquire", "rc_start_pool", "rc_bind"}
       \/ pc[p] = "done" /\ HasEvent(p, "PostgresEngine")

IsShell(p, i, commands) ==
    Kind(p, i) = "run_shell" /\ Payload(p, i).commands = commands

DiagnoseCommands == <<Piccolo, Word("--diagnose")>>
CheckCommands == <<Piccolo, Word("migrations"), Word("check")>>

\* the migration tool has returned its output to register_cog
MigrationReturned(p) ==
    /\ InRegister(p)
    /\ \E i \in Indices(p) :
        IsShell(p, i, forwards_commands(args[p].cog, args[p].trace))

\* both diagnostic runs were made, in order, and their text, joined, was
\* logged as an error
DiagnosticsLogged(p) ==
    \E i, j, k \in Indices(p) :
        /\ i < j /\ j < k
        /\ IsShell(p, i, DiagnoseCommands)
        /\ IsShell(p, j, CheckCommands)
        /\ Kind(p, k) = "log"
        /\ Payload(p, k).level = "error"
        /\ Payload(p, k).text =
              Payload(p, i).out \o <<"\n">> \o Payload(p, j).out
              \o <<"\nOne or more migrations failed to run!">>

NoDiagnostics(p) ==
    \A i \in Indices(p) :
        ~IsShell(p, i, DiagnoseCommands) /\ ~IsShell(p, i, CheckCommands)

\* nothing of provisioning or of what follows it has happened
NothingBegun(p) ==
    /\ conn[p] = "none"
    /\ \A i \in Indices(p) : Kind(p, i) \in {"get_root"}
    /\ tableDb = dbBefore[p]

\* C1: a register_cog call on an identity whose root is a UNC path ends, at
\* its root checks, with UNCPathError; no administrative connection is
\* opened, no subprocess is run, no engine is constructed and no table
\* descriptor is changed.
C1_UncRootRejected ==
    \A p \in Procs :
        (InRegister(p) /\ args[p].cog.unc /\ pc[p] # "rc_validate")
        => Raised(p, "UNCPathError") /\ NothingBegun(p)

C1_Witness ==
    \E p \in Procs :
        InRegister(p) /\ args[p].cog.unc /\ args[p].cog.is_dir /\ pc[p] = "done"

\* C2 as stated: a register_cog call on an identity whose root is not an
\* existing directory ends with DirectoryError, whether or not the root is a
\* UNC path.
C2_NotADirectoryRejected ==
    \A p \in Procs :
        (InRegister(p) /\ ~args[p].cog.is_dir /\ pc[p] # "rc_validate")
        => Raised(p, "DirectoryError")

\* C2, amended: a register_cog call on an identity whose root is not a UNC
\* path and is not an existing directory ends with DirectoryError, and
\* nothing of provisioning has begun.
C2_LocalNotADirectoryRejected ==
    \A p \in Procs :
        (InRegister(p) /\ ~args[p].cog.unc /\ ~args[p].cog.is_dir
            /\ pc[p] # "rc_validate")
        => Raised(p, "DirectoryError") /\ NothingBegun(p)

C2_Witness ==
    \E p \in Procs :
        InRegister(p) /\ ~args[p].cog.unc /\ ~args[p].cog.is_dir /\ pc[p] = "done"

\* C3: no call ends with the administrative connection it opened still open.
C3_ConnectionClosedOnExit ==
    \A p \in Procs : pc[p] = "done" => conn[p] # "open"

\* C4 as stated: when migrations are not skipped and the output of the
\* migration tool contains "Traceback", register_cog has run both
\* diagnostic sub-calls and logged their joined text as an error by the
\* time it leaves its migration block, whatever else the output contains.
C4_TracebackDiagnosed ==
    \A p \in Procs :
        (PastMigrations(p) /\ ~args[p].skip_migrations
            /\ Contains(locals[p].result, TracebackWord))
        => DiagnosticsLogged(p)

\* C4, amended: the same, for the outputs that contain "Traceback" and do
\* not contain "No migrations need to be run".
C4_TracebackWithoutNoOpDiagnosed ==
    \A p \in Procs :
        (PastMigrations(p) /\ ~args[p].skip_migrations
            /\ Contains(locals[p].result, TracebackWord)
            /\ ~Contains(locals[p].result, NoMigrationsPhrase))
        => DiagnosticsLogged(p)

C4_Witness ==
    \E p \in Procs :
        /\ PastMigrations(p) /\ ~args[p].skip_migrations
        /\ Contains(locals[p].result, TracebackWord)
        /\ ~Contains(locals[p].result, NoMigrationsPhrase)
        /\ Len(locals[p].result) > 1
        /\ DiagnosticsLogged(p)

\* C5: when the output of the migration tool contains "No migrations need
\* to be run", register_cog logs the no-op and runs neither diagnostic
\* sub-call at any time in that registration.
C5_NoOpNotDiagnosed ==
    \A p \in Procs :
        (MigrationReturned(p) /\ Contains(locals[p].result, NoMigrationsPhrase))
        => /\ NoDiagnostics(p)
           /\ pc[p] # "di_diagnose" /\ pc[p] # "di_check" /\ pc[p] # "rc_log_error"
           /\ pc[p] # "rc_classify"
                => \E i \in Indices(p) :
                      /\ Kind(p, i) = "log"
                      /\ Payload(p, i) = [level |-> "info", text |-> <<"No migrations needed">>]

C5_Witness ==
    \E p \in Procs :
        /\ MigrationReturned(p) /\ Returned(p)
        /\ Contains(locals[p].result, NoMigrationsPhrase)
        /\ Contains(locals[p].result, TracebackWord)

\* the engine construction of the call did not return within the timeout
EngineTimedOut(p) ==
    \E i \in Indices(p) :
        Kind(p, i) = "PostgresEngine" /\ Payload(p, i).res = "timeout"

\* C6: when the engine construction does not return within the timeout,
\* register_cog ends with ConnectionTimeoutError, start_connection_pool is
\* not called and no table descriptor is bound.
C6_EngineTimeoutFails ==
    \A p \in Procs :
        EngineTimedOut(p)
        => /\ Raised(p, "ConnectionTimeoutError")
           /\ ~HasEvent(p, "start_connection_pool")
           /\ ~HasEvent(p, "bind")
           /\ locals[p].engine = 0
           /\ tableDb = dbBefore[p]

C6_Witness ==
    \E p \in Procs :
        /\ InRegister(p) /\ EngineTimedOut(p) /\ pc[p] = "done"
        /\ \A t \in args[p].tables : tableDb[t] = 1

\* C7: whatever text the migration tool returned, register_cog does not end
\* before it has gone on to construct the engine, and no error it ends with
\* is one of its migration block: it is an error of the engine construction
\* or of the pool start; when these succeed, the tables are bound.
C7_MigrationOutputNeverHalts ==
    \A p \in Procs :
        (MigrationReturned(p) /\ pc[p] = "done")
        => /\ HasEvent(p, "PostgresEngine")
           /\ outcome[p].status = "raised"
                => outcome[p].exc \in {"ConnectionTimeoutError", "EngineError", "PoolError"}
           /\ (\E i \in Indices(p) :
                    Kind(p, i) = "start_connection_pool" /\ Payload(p, i).ok)
                => /\ Returned(p)
                   /\ \A t \in args[p].tables : tableDb[t] = locals[p].engine

C7_Witness ==
    \E p \in Procs :
        /\ MigrationReturned(p) /\ Returned(p)
        /\ Contains(locals[p].result, TracebackWord)
        /\ ~Contains(locals[p].result, NoMigrationsPhrase)
        /\ \A t \in args[p].tables : tableDb[t] = locals[p].engine

\* the CREATE DATABASE statements the call has issued
Creates(p) == {i \in Indices(p) : Kind(p, i) = "execute"}

\* the call has listed the databases
Listed(p) == \E i \in Indices(p) : Kind(p, i) = "fetch" /\ Payload(p, i).ok

\* C8: a provisioning call that has closed its connection has issued CREATE
\* DATABASE for the lowercase name of the plugin exactly once if it listed
\* the databases and the name was not among them, and not at all otherwise;
\* when ensure_database_exists returns, it returns True exactly when it
\* issued the statement.
C8_CreateIssuedOnceIffAbsent ==
    \A p \in Procs :
        /\ HasEvent(p, "close")
            => /\ Cardinality(Creates(p)) =
                    IF Listed(p) /\ db_name(args[p].cog) \notin locals[p].databases
                    THEN 1 ELSE 0
               /\ \A i \in Creates(p) :
                    /\ Payload(p, i).name = db_name(args[p].cog)
                    /\ Payload(p, i).name = Lower(Payload(p, i).name)
        /\ (Returned(p) /\ args[p].op = "ensure_database_exists")
            => outcome[p].value = <<"bool", Cardinality(Creates(p)) = 1>>
        /\ (InRegister(p) /\ HasEvent(p, "close") /\ pc[p] # "done")
            => locals[p].created = (Cardinality(Creates(p)) = 1)

C8_Witness ==
    \E p \in Procs :
        /\ Returned(p) /\ args[p].op = "ensure_database_exists"
        /\ outcome[p].value = <<"bool", TRUE>>
        /\ args[p].cog.stem # Lower(args[p].cog.stem)
        /\ Cardinality(Creates(p)) = 1

\* C9: the config dict of the caller has, at every point of every operation,
\* the items it had when the operation was called; the database name is
\* set on another dict, and it is that dict the engine construction gets.
C9_ConfigNeverMutated ==
    \A p \in Procs :
        pc[p] # "idle"
        => /\ heap[p][ConfigRef] = args[p].config
           /\ locals[p].temp_config # ConfigRef
           /\ \A i \in Indices(p) :
                Kind(p, i) = "PostgresEngine"
                => /\ Payload(p, i).config =
                        DictSet(args[p].config, "database", db_name(args[p].cog))
                   /\ Payload(p, i).config = heap[p][locals[p].temp_config]

C9_Witness ==
    \E p \in Procs :
        /\ Returned(p) /\ InRegister(p)
        /\ "database" \in DOMAIN args[p].config
        /\ heap[p][ConfigRef]["database"] = Postgres
        /\ heap[p][locals[p].temp_config]["database"] = db_name(args[p].cog)

\* the place of an event in the order of register_cog (0: a log line)
Stage(kind) ==
    CASE kind = "get_root" -> 1
      [] kind \in {"connect", "fetch", "execute", "close"} -> 2
      [] kind = "run_shell" -> 3
      [] kind = "PostgresEngine" -> 4
      [] kind = "start_connection_pool" -> 5
      [] kind = "bind" -> 6
      [] OTHER -> 0

Before(p, i, kind) == \E j \in 1..(i - 1) : Kind(p, j) = kind

\* C10: in a register_cog call the steps come in the order root checks,
\* provisioning, migration subprocesses, engine construction, pool start,
\* table binding; each step comes after the end of the one before it, and
\* the administrative connection is closed when the first migration
\* subprocess starts.
C10_StepsInOrder ==
    \A p \in Procs :
        InRegister(p)
        => /\ \A i, j \in Indices(p) :
                (i < j /\ Stage(Kind(p, i)) # 0 /\ Stage(Kind(p, j)) # 0)
                => Stage(Kind(p, i)) <= Stage(Kind(p, j))
           /\ \A i \in Indices(p) :
                /\ Kind(p, i) = "connect" => Before(p, i, "get_root")
                /\ Kind(p, i) \in {"run_shell", "PostgresEngine"}
                    => Before(p, i, "connect") /\ Before(p, i, "close")
                /\ Kind(p, i) = "start_connection_pool"
                    => \E j \in 1..(i - 1) :
                          Kind(p, j) = "PostgresEngine" /\ Payload(p, j).res = "ok"
                /\ Kind(p, i) = "bind"
                    => \E j \in 1..(i - 1) :
                          Kind(p, j) = "start_connection_pool" /\ Payload(p, j).ok
           /\ pc[p] \in {"rm_run", "rc_classify", "di_diagnose", "di_check",
                         "rc_log_error", "rc_temp_config", "ae_acquire",
                         "rc_start_pool", "rc_bind"}
                => conn[p] = "closed"

C10_Witness ==
    \E p \in Procs :
        /\ InRegister(p) /\ Returned(p)
        /\ \E i \in Indices(p) : IsShell(p, i, CheckCommands)
        /\ HasEvent(p, "execute")
        /\ HasEvent(p, "bind")

----------------------------------------------------------------------------
(* Properties of the engine, of skip_migrations and of failed registrations *)

EventsOfKind(p, kind) == {i \in Indices(p) : Kind(p, i) = kind}

\* C11: when register_cog returns, it returns an engine handle that no table
\* descriptor had before; every table descriptor of the supplied list
\* references that handle and the others are as they were; the call
\* constructed one engine, and started its pool once, with the min_size and
\* max_size of the caller, before it bound any descriptor.
C11_OneEngineBoundToAllTables ==
    \A p \in Procs :
        (InRegister(p) /\ Returned(p))
        => LET e == locals[p].engine
           IN  /\ outcome[p].value = <<"engine", e>>
               /\ e # 0
               /\ \A t \in Tables : dbBefore[p][t] # e
               /\ \A t \in Tables :
                    tableDb[t] = IF t \in args[p].tables THEN e ELSE dbBefore[p][t]
               /\ Cardinality(EventsOfKind(p, "PostgresEngine")) = 1
               /\ Cardinality(EventsOfKind(p, "start_connection_pool")) = 1
               /\ Cardinality(EventsOfKind(p, "bind")) = 1
               /\ \A i \in EventsOfKind(p, "start_connection_pool") :
                    /\ Payload(p, i) =
                          [engine |-> e, min_size |-> args[p].sizes[1],
                           max_size |-> args[p].sizes[2], ok |-> TRUE]
                    /\ \A j \in EventsOfKind(p, "PostgresEngine") : j < i
                    /\ \A j \in EventsOfKind(p, "bind") :
                          i < j /\ Payload(p, j) = [tables |-> args[p].tables, engine |-> e]

C11_Witness ==
    \E p \in Procs :
        /\ InRegister(p) /\ Returned(p)
        /\ args[p].sizes = <<2, 5>>
        /\ args[p].tables = {"T1", "T2"}
        /\ dbBefore[p]["T1"] = 1
        /\ tableDb["T1"] = locals[p].engine /\ tableDb["T2"] = locals[p].engine

\* the steps of the call other than its log lines and its subprocesses
RECURSIVE CoreKindsOf(_)
CoreKindsOf(es) ==
    IF es = <<>> THEN <<>>
    ELSE (IF es[1][1] \in {"log", "run_shell"} THEN <<>> ELSE <<es[1][1]>>)
         \o CoreKindsOf(Tail(es))

\* the steps of a registration that returns, given whether it created the
\* database
RegistrationSteps(created) ==
    <<"get_root", "connect", "fetch">>
    \o (IF created THEN <<"execute">> ELSE <<>>)
    \o <<"close", "PostgresEngine", "start_connection_pool", "bind">>

\* C12: with skip_migrations set, register_cog runs no subprocess at all,
\* neither a migration nor a diagnostic one; a registration that returns
\* has made the same steps of provisioning, engine construction, pool start
\* and table binding, with the same arguments, whether or not migrations
\* were skipped.
C12_SkipMigrationsSkipsOnlyMigrations ==
    \A p \in Procs :
        InRegister(p)
        => /\ args[p].skip_migrations
                => /\ ~HasEvent(p, "run_shell")
                   /\ pc[p] \notin {"rm_run", "rc_classify", "di_diagnose", "di_check",
                                    "rc_log_error"}
           /\ Returned(p)
                => /\ CoreKindsOf(events[p]) = RegistrationSteps(locals[p].created)
                   /\ \A i \in EventsOfKind(p, "PostgresEngine") :
                        Payload(p, i) =
                            [config |-> DictSet(args[p].config, "database",
                                                db_name(args[p].cog)),
                             extensions |-> args[p].extensions,
                             timeout |-> EngineTimeout, res |-> "ok"]
                   /\ \A t \in args[p].tables : tableDb[t] = locals[p].engine

C12_Witness ==
    \E p \in Procs :
        /\ InRegister(p) /\ Returned(p) /\ args[p].skip_migrations
        /\ ~piccoloInstalled
        /\ locals[p].created

\* C15: a register_cog call that ended with an error, at whatever step, was
\* aborted there: the caller gets the error, no table descriptor was bound
\* and every table descriptor is as it was before the call.
C15_FailedRegistrationBindsNothing ==
    \A p \in Procs :
        (InRegister(p) /\ pc[p] = "done" /\ outcome[p].status # "returned")
        => /\ outcome[p].status = "raised"
           /\ outcome[p].exc \in
                {"UNCPathError", "DirectoryError", "ConnectError", "AttributeError",
                 "PostgresError", "DuplicateDatabaseError", "FileNotFoundError",
                 "ConnectionTimeoutError", "EngineError", "PoolError"}
           /\ ~HasEvent(p, "bind")
           /\ tableDb = dbBefore[p]

C15_Witness ==
    \E p \in Procs :
        /\ InRegister(p) /\ Raised(p, "PoolError")
        /\ dbBefore[p]["T1"] = 1
        /\ tableDb = dbBefore[p]

----------------------------------------------------------------------------
(* Properties of the argument lists *)

Flag(b) == IF b THEN 1 ELSE 0

\* <exe> migrations forwards <name> [--trace]
ForwardsPattern(c, name, trace) ==
    /\ Len(c) = 4 + Flag(trace)
    /\ c[1] = <<"piccolo">> /\ c[2] = <<"migrations">> /\ c[3] = <<"forwards">>
    /\ c[4] = name
    /\ trace => c[5] = <<"--trace">>

\* <exe> migrations backwards <name> <timestamp> [--trace]
BackwardsPattern(c, name, timestamp, trace) ==
    /\ Len(c) = 5 + Flag(trace)
    /\ c[1] = <<"piccolo">> /\ c[2] = <<"migrations">> /\ c[3] = <<"backwards">>
    /\ c[4] = name /\ c[5] = timestamp
    /\ trace => c[6] = <<"--trace">>

\* <exe> migrations new <name> --auto [--trace] [--desc=<text>]
NewPattern(c, name, trace, description) ==
    /\ Len(c) = 5 + Flag(trace) + Flag(description.given)
    /\ c[1] = <<"piccolo">> /\ c[2] = <<"migrations">> /\ c[3] = <<"new">>
    /\ c[4] = name /\ c[5] = <<"--auto">>
    /\ trace => c[6] = <<"--trace">>
    /\ description.given => c[6 + Flag(trace)] = <<"--desc=">> \o description.text

\* the first subprocess of the call
FirstShell(p) ==
    CHOOSE i \in EventsOfKind(p, "run_shell") :
        \A j \in EventsOfKind(p, "run_shell") : i <= j

\* C14: the argument list that each migration operation hands to the
\* subprocess is that of its pattern, for every trace flag, timestamp and
\* description: --trace is there exactly when trace is set, --desc=<text>
\* exactly when a description is given, and in that order.
C14_ArgumentListsMatchPatterns ==
    \A p \in Procs :
        HasEvent(p, "run_shell")
        => LET c == Payload(p, FirstShell(p)).commands
               a == args[p]
           IN  /\ a.op \in {"run_migrations", "register_cog"}
                    => ForwardsPattern(c, a.cog.stem, a.trace)
               /\ a.op = "reverse_migration"
                    => BackwardsPattern(c, a.cog.stem, a.timestamp, a.trace)
               /\ a.op = "create_migrations"
                    => NewPattern(c, a.cog.stem, a.trace, a.description)
               /\ a.op \in {"run_migrations", "reverse_migration", "create_migrations"}
                    => Cardinality(EventsOfKind(p, "run_shell")) = 1

C14_Witness ==
    \E p \in Procs :
        /\ Returned(p) /\ args[p].op = "create_migrations"
        /\ args[p].trace /\ args[p].description.given
        /\ args[p].description.text # <<>>
        /\ Len(Payload(p, FirstShell(p)).commands) = 7

----------------------------------------------------------------------------
(* db_name called on its own, lines 259-261: two tasks each derive the name
   of one identity *)

\* stems and qualified names over the letters that Lower knows
IdentityNames == {<<"E", "c">>, <<"e", "c">>, <<"B">>, <<"b">>}

\* the identities db_name is called with
NamedCogs ==
    [kind : {"path"}, stem : IdentityNames, qualified_name : {<<>>},
     unc : {FALSE}, is_dir : {TRUE}]
    \cup
    [kind : {"cog"}, stem : {<<"E", "c">>}, qualified_name : IdentityNames,
     unc : {FALSE}, is_dir : {TRUE}]
    \cup
    [kind : {"other"}, stem : {<<"E", "c">>}, qualified_name : {<<>>},
     unc : {FALSE}, is_dir : {TRUE}]

CallDbName(p) ==
    /\ pc[p] = "idle"
    /\ \E c \in NamedCogs :
        args' = Set(args, p, [NoArgs EXCEPT !.op = "db_name", !.cog = c])
    /\ pc' = Set(pc, p, "dn_run")
    /\ outcome' = Set(outcome, p, Running)
    /\ UNCHANGED <<heap, conn, locals, events, dbBefore, envVars>>

db_name_call(p) ==
    /\ pc[p] = "dn_run"
    /\ IF db_name_raises(args[p].cog)
       THEN Raise(p, "AttributeError")
       ELSE Return(p, <<"text", db_name(args[p].cog)>>)
    /\ UNCHANGED <<heap, conn, locals, events, callVars, envVars>>

NextNames == \E p \in Procs : CallDbName(p) \/ db_name_call(p)

SpecNames == Init /\ [][NextNames]_vars

\* what names the identity: the stem of a Path, the qualified name of a cog
IdentityName(cog) == IF cog.kind = "path" THEN cog.stem ELSE cog.qualified_name

UpperCase == {"E", "B"}

\* the two letters of a pair are the two cases of one letter
CasePairs == {{"E", "e"}, {"B", "b"}}

EqualUpToCase(a, b) ==
    /\ Len(a) = Len(b)
    /\ \A i \in 1..Len(a) : a[i] = b[i] \/ {a[i], b[i]} \in CasePairs

NameDerived(p) == args[p].op = "db_name" /\ Returned(p)

\* C13 as stated: db_name gives the same identity the same name, and two
\* identities with distinct path stems or distinct qualified names never
\* the same name.
C13_DistinctIdentitiesDistinctNames ==
    \A p, q \in Procs :
        (NameDerived(p) /\ NameDerived(q))
        => /\ args[p].cog = args[q].cog => outcome[p].value = outcome[q].value
           /\ IdentityName(args[p].cog) # IdentityName(args[q].cog)
                => outcome[p].value # outcome[q].value

\* C13, amended: db_name gives the same identity the same name, a name
\* without upper-case letters; two identities get the same name exactly
\* when their path stems or qualified names are equal up to the case of
\* their letters.
C13_NamesCollideExactlyUpToCase ==
    \A p, q \in Procs :
        (NameDerived(p) /\ NameDerived(q))
        => /\ args[p].cog = args[q].cog => outcome[p].value = outcome[q].value
           /\ \A i \in 1..Len(outcome[p].value[2]) :
                outcome[p].value[2][i] \notin UpperCase
           /\ (outcome[p].value = outcome[q].value)
                = EqualUpToCase(IdentityName(args[p].cog), IdentityName(args[q].cog))

C13_Witness ==
    \E p, q \in Procs :
        /\ NameDerived(p) /\ NameDerived(q)
        /\ args[p].cog.kind = "path" /\ args[q].cog.kind = "path"
        /\ args[p].cog.stem = <<"E", "c">> /\ args[q].cog.stem = <<"e", "c">>
        /\ outcome[p].value = outcome[q].value

----------------------------------------------------------------------------
(* Two registrations at once: two tasks each await register_cog, and the
   event loop runs one of them at each await.  Migrations are skipped: they
   touch neither the connection nor the server's databases. *)

ConcurrentArgs ==
    [op : {"register_cog"},
     cog : {c \in Cogs : c.is_dir /\ ~c.unc /\ c.kind # "other"},
     config : {[k \in {"host"} |-> <<"x">>]}, trace : {FALSE},
     skip_migrations : {TRUE}, tables : {{"T1"}}, sizes : {<<1, 20>>},
     extensions : {<<"uuid-ossp">>}, timestamp : {<<>>}, description : {NoDescription}]

CallConcurrently(p) ==
    /\ pc[p] = "idle"
    /\ \E a \in ConcurrentArgs :
        /\ args' = Set(args, p, a)
        /\ heap' = Set(heap, p, <<a.config>>)
        /\ pc' = Set(pc, p, Entry(a.op))
    /\ conn' = Set(conn, p, "none")
    /\ locals' = Set(locals, p, NoLocals)
    /\ outcome' = Set(outcome, p, Running)
    /\ events' = Set(events, p, <<>>)
    /\ dbBefore' = Set(dbBefore, p, tableDb)
    /\ UNCHANGED envVars

StepConcurrent(p) ==
    \/ CallConcurrently(p)
    \/ rc_validate(p)
    \/ ede_connect(p)
    \/ ede_fetch(p)
    \/ ede_execute(p)
    \/ ede_close(p)
    \/ rc_provisioned(p)
    \/ rc_temp_config(p)
    \/ ae_acquire(p)
    \/ rc_start_pool(p)
    \/ rc_bind(p)

NextConcurrent == \E p \in Procs : StepConcurrent(p)

SpecConcurrent == Init /\ [][NextConcurrent]_vars

\* the call listed the databases and its name was not among them
FoundAbsent(p) ==
    /\ Listed(p)
    /\ locals[p].database_name \notin locals[p].databases

\* C16: nothing stands between the existence check and the creation: a
\* registration that listed the databases and did not find its name issues
\* CREATE DATABASE for it, whatever another registration has done to the
\* server since the listing; so two registrations of one absent name can
\* both list before either creates, and then both issue the statement.
C16_CreateFollowsStaleListing ==
    \A p \in Procs :
        FoundAbsent(p)
        => \/ pc[p] = "ede_execute"
           \/ \E i \in Creates(p) : Payload(p, i).name = locals[p].database_name

C16_Witness ==
    \E p, q \in Procs :
        /\ p # q
        /\ InRegister(p) /\ InRegister(q)
        /\ locals[p].database_name = locals[q].database_name
        /\ FoundAbsent(p) /\ FoundAbsent(q)
        /\ Cardinality(Creates(p)) = 1 /\ Cardinality(Creates(q)) = 1
        /\ locals[p].created
        /\ locals[q].pending = "DuplicateDatabaseError"
        /\ Returned(p)
        /\ Raised(q, "DuplicateDatabaseError")

====
